---- MODULE Spec2Model ----
(***************************************************************************)
(* torchgpipe skip connections: the @skippable declaration, isolate,       *)
(* the stash/pop dispatch of Skippable.forward and verify_skippables       *)
(* (src/torchgpipe/skip/skippable.py).                                     *)
(***************************************************************************)
EXTENDS Integers, Sequences, FiniteSets, Bags, TLC

(* ------------------------------ bounds -------------------------------- *)

\* longest nn.Sequential handed to verify_skippables / run by a micro-batch
MaxLayers == 3
\* most stash/pop declarations in one pipeline (summed over its layers)
MaxDecls == 3
\* most isolate() calls made while a pipeline is built
MaxIsolate == 1
\* most commands one computation yields in one forward call
MaxOps == 2
\* stages of the pipeline in the usage of isolate
UsageLayers == 4

(* ------------------------------ domains ------------------------------- *)

\* Python's None: the default namespace of namespaced() and the absent tensor
None == "None"
\* skip names computations and declarations draw from
Names == {"s", "t"}
\* Namespace() instances (identity-compared tokens)
Namespaces == {"ns1", "ns2"}
\* tensors flowing through the pipeline
Tensors == {"X", "Y"}
\* Optional[Tensor] values a computation stashes
Values == {"X", None}
\* micro-batches, each with a SkipTracker of its own
MicroBatches == {"mb1", "mb2"}

(* ---------------------------- dictionaries ---------------------------- *)

EmptyDict == [k \in {} |-> None]
Put(d, k, v) == [x \in (DOMAIN d) \cup {k} |-> IF x = k THEN v ELSE d[x]]
Del(d, ks) == [x \in (DOMAIN d) \ ks |-> d[x]]

(* ------------------------- Skippable instances ------------------------ *)

\* a layer of the nn.Sequential: a Skippable instance (class attributes
\* stashable_names / poppable_names, instance attribute namespaces) or a
\* plain nn.Module (skippable = FALSE)
NewSkippable(st, po) ==
    [skippable |-> TRUE, stashable_names |-> st, poppable_names |-> po,
     namespaces |-> EmptyDict]

PlainModule ==
    [skippable |-> FALSE, stashable_names |-> {}, poppable_names |-> {},
     namespaces |-> EmptyDict]

LayerChoices ==
    {NewSkippable(st, po) : st \in SUBSET Names, po \in SUBSET Names}
        \cup {PlainModule}

NDecls(layer) ==
    Cardinality(layer.stashable_names) + Cardinality(layer.poppable_names)

RECURSIVE SumDecls(_, _)
SumDecls(m, i) == IF i = 0 THEN 0 ELSE NDecls(m[i]) + SumDecls(m, i - 1)

\* namespaced as it would be if it dropped the namespaces table
namespaced_unscoped(layer, name) == <<None, name>>

\* Skippable.namespaced: namespaces.get(name) is None for a name never isolated
namespaced(layer, name) ==
    <<IF name \in DOMAIN layer.namespaces THEN layer.namespaces[name] ELSE None,
      name>>

stashable(layer) == {namespaced(layer, n) : n \in layer.stashable_names}

poppable(layer) == {namespaced(layer, n) : n \in layer.poppable_names}

\* the `only` keyword of isolate: omitted, or an iterable of names
OnlyChoices ==
    {[given |-> FALSE, names |-> {}]} \cup
        {[given |-> TRUE, names |-> S] : S \in SUBSET Names}

\* isolate as it would be if it ignored `only` and always took the declared names
isolate_ignore_only(layer, ns, only) ==
    LET names == layer.stashable_names \cup layer.poppable_names
    IN [layer EXCEPT !.namespaces =
            [n \in (DOMAIN layer.namespaces) \cup names |->
                IF n \in names THEN ns ELSE layer.namespaces[n]]]

\* Skippable.isolate: returns the instance with its namespaces table rebound
isolate(layer, ns, only) ==
    LET names == IF ~only.given
                 THEN layer.stashable_names \cup layer.poppable_names
                 ELSE only.names
    IN [layer EXCEPT !.namespaces =
            [n \in (DOMAIN layer.namespaces) \cup names |->
                IF n \in names THEN ns ELSE layer.namespaces[n]]]

(* --------------------------- verify_skippables ------------------------ *)

Msg(kind, i, name) == [kind |-> kind, layer |-> i, name |-> name]

\* the scan of a layer as it would be without the two checks of a poppable key
\* (already popped, never stashed)
ScanLayer_unchecked_pop(layer, i, acc) ==
    IF ~layer.skippable THEN acc
    ELSE
    LET both == layer.stashable_names \cap layer.poppable_names
        sts  == {n \in layer.stashable_names : n \notin layer.poppable_names}
        reSt == {n \in sts : namespaced(layer, n) \in acc.stashed}
        pos  == {n \in layer.poppable_names : n \notin layer.stashable_names}
        new  == {Msg("both", i, n) : n \in both}
                  \cup {Msg("restash", i, n) : n \in reSt}
    IN [stashed |-> acc.stashed \cup {namespaced(layer, n) : n \in sts \ reSt},
        popped |-> acc.popped \cup {namespaced(layer, n) : n \in pos},
        msgs |-> acc.msgs (+) SetToBag(new)]

\* the scan of a layer as it would be without the check of a stashable key
\* against the keys stashed so far
ScanLayer_unchecked_stash(layer, i, acc) ==
    IF ~layer.skippable THEN acc
    ELSE
    LET both == layer.stashable_names \cap layer.poppable_names
        sts  == {n \in layer.stashable_names : n \notin layer.poppable_names}
        stashed1 == acc.stashed \cup {namespaced(layer, n) : n \in sts}
        pos  == {n \in layer.poppable_names : n \notin layer.stashable_names}
        rePo == {n \in pos : namespaced(layer, n) \in acc.popped}
        noSt == {n \in pos \ rePo : namespaced(layer, n) \notin stashed1}
        new  == {Msg("both", i, n) : n \in both}
                  \cup {Msg("repop", i, n) : n \in rePo}
                  \cup {Msg("notstashed", i, n) : n \in noSt}
    IN [stashed |-> stashed1,
        popped |-> acc.popped \cup {namespaced(layer, n) : n \in (pos \ rePo) \ noSt},
        msgs |-> acc.msgs (+) SetToBag(new)]

\* the scan of a layer as it would be if the names declared on both sides
\* were not skipped by the stashable and the poppable loop
ScanLayer_count_both(layer, i, acc) ==
    IF ~layer.skippable THEN acc
    ELSE
    LET both == layer.stashable_names \cap layer.poppable_names
        sts  == layer.stashable_names
        reSt == {n \in sts : namespaced(layer, n) \in acc.stashed}
        stashed1 == acc.stashed \cup
                      {namespaced(layer, n) : n \in sts \ reSt}
        pos  == layer.poppable_names
        rePo == {n \in pos : namespaced(layer, n) \in acc.popped}
        noSt == {n \in pos \ rePo : namespaced(layer, n) \notin stashed1}
        popped1 == acc.popped \cup
                      {namespaced(layer, n) : n \in (pos \ rePo) \ noSt}
        new  == {Msg("both", i, n) : n \in both}
                  \cup {Msg("restash", i, n) : n \in reSt}
                  \cup {Msg("repop", i, n) : n \in rePo}
                  \cup {Msg("notstashed", i, n) : n \in noSt}
    IN [stashed |-> stashed1, popped |-> popped1,
        msgs |-> acc.msgs (+) SetToBag(new)]

\* one iteration of `for layer_name, layer in module.named_children()`:
\* acc = [stashed, popped, msgs]
ScanLayer(layer, i, acc) ==
    IF ~layer.skippable THEN acc
    ELSE
    LET both == layer.stashable_names \cap layer.poppable_names
        sts  == {n \in layer.stashable_names : n \notin layer.poppable_names}
        reSt == {n \in sts : namespaced(layer, n) \in acc.stashed}
        stashed1 == acc.stashed \cup
                      {namespaced(layer, n) : n \in sts \ reSt}
        pos  == {n \in layer.poppable_names : n \notin layer.stashable_names}
        rePo == {n \in pos : namespaced(layer, n) \in acc.popped}
        noSt == {n \in pos \ rePo : namespaced(layer, n) \notin stashed1}
        popped1 == acc.popped \cup
                      {namespaced(layer, n) : n \in (pos \ rePo) \ noSt}
        new  == {Msg("both", i, n) : n \in both}
                  \cup {Msg("restash", i, n) : n \in reSt}
                  \cup {Msg("repop", i, n) : n \in rePo}
                  \cup {Msg("notstashed", i, n) : n \in noSt}
    IN [stashed |-> stashed1, popped |-> popped1,
        msgs |-> acc.msgs (+) SetToBag(new)]

\* `for (_, name) in stashed - popped`: one message per key, naming only the name
NeverPoppedMsgs(st, po) ==
    LET left == st \ po
    IN [m \in {Msg("neverpopped", 0, k[2]) : k \in left} |->
            Cardinality({k \in left : k[2] = m.name})]

\* `for layer_name, layer in module.named_children()`, from layer i on
RECURSIVE ScanFrom(_, _, _)
ScanFrom(m, i, acc) ==
    IF i > Len(m) THEN acc
    ELSE LET a == ScanLayer(m[i], i, [stashed |-> acc.stashed, popped |-> acc.popped,
                                      msgs |-> acc.msgs])
         IN ScanFrom(m, i + 1, [stashed |-> a.stashed, popped |-> a.popped,
                                msgs |-> a.msgs, scanned |-> i])

\* the scan as it would be if it stopped at the first layer with a finding
RECURSIVE ScanFrom_failfast(_, _, _)
ScanFrom_failfast(m, i, acc) ==
    IF i > Len(m) \/ acc.msgs # EmptyBag THEN acc
    ELSE LET a == ScanLayer(m[i], i, [stashed |-> acc.stashed, popped |-> acc.popped,
                                      msgs |-> acc.msgs])
         IN ScanFrom_failfast(m, i + 1, [stashed |-> a.stashed, popped |-> a.popped,
                                         msgs |-> a.msgs, scanned |-> i])

\* verify_skippables as it would be if it raised at the first finding
verify_skippables_failfast(m) ==
    LET acc == ScanFrom_failfast(m, 1, [stashed |-> {}, popped |-> {},
                                        msgs |-> EmptyBag, scanned |-> 0])
        all == IF acc.msgs # EmptyBag THEN acc.msgs
               ELSE NeverPoppedMsgs(acc.stashed, acc.popped)
    IN [stashed |-> acc.stashed, popped |-> acc.popped, msgs |-> all,
        scanned |-> acc.scanned,
        verdict |-> IF all = EmptyBag THEN "ok" ELSE "TypeError"]

\* verify_skippables: the scan, the never-popped findings, and the single raise
verify_skippables(m) ==
    LET acc == ScanFrom(m, 1, [stashed |-> {}, popped |-> {}, msgs |-> EmptyBag,
                               scanned |-> 0])
        all == acc.msgs (+) NeverPoppedMsgs(acc.stashed, acc.popped)
    IN [stashed |-> acc.stashed, popped |-> acc.popped, msgs |-> all,
        scanned |-> acc.scanned,
        verdict |-> IF all = EmptyBag THEN "ok" ELSE "TypeError"]

(* ------------------------------ commands ------------------------------ *)

\* what a computation yields: stash(name, tensor), pop(name), or any other object
Stash(name, tensor) == [kind |-> "stash", name |-> name, tensor |-> tensor]
Pop(name) == [kind |-> "pop", name |-> name, tensor |-> None]
Other == [kind |-> "other", name |-> None, tensor |-> None]
NoOp == [kind |-> "none", name |-> None, tensor |-> None]

Commands ==
    {Stash(n, v) : n \in Names, v \in Values} \cup {Pop(n) : n \in Names} \cup {Other}

NoErr == [type |-> "none", names |-> {}]
Err(type, names) == [type |-> type, names |-> names]

(* ------------------------------ SkipTracker --------------------------- *)

\* current_skip_tracker(): the tracker of the micro-batch being advanced
current_skip_tracker(trackers, mb) == trackers[mb]

\* SkipTracker.save: inserts or overwrites the slot of (ns, name)
save(t, key, tensor) == Put(t, key, tensor)

\* SkipTracker.load: removes and returns the slot; KeyError when absent
CanLoad(t, key) == key \in DOMAIN t
load(t, key) == [tensor |-> t[key], tracker |-> Del(t, {key})]

(* -------------------------- Skippable.forward ------------------------- *)

\* the state of one forward call
IdleCall ==
    [stage |-> 0, gen |-> "none", op |-> NoOp,
     stashed_tensors |-> EmptyDict, poppable_tensors |-> EmptyDict,
     output |-> None, trace |-> <<>>, inj |-> <<>>]

\* the loads as they would be if they read the slots without removing them
RECURSIVE LoadEach_peek(_, _, _)
LoadEach_peek(layer, names, acc) ==
    IF names = {} THEN acc
    ELSE LET n == CHOOSE x \in names : TRUE
         IN LoadEach_peek(layer, names \ {n},
                [tracker |-> acc.tracker,
                 poppable_tensors |->
                    Put(acc.poppable_tensors, n, acc.tracker[namespaced(layer, n)])])

\* `poppable_tensors[name] = skip_tracker.load(batch, ns, name)` for each of `names`
RECURSIVE LoadEach(_, _, _)
LoadEach(layer, names, acc) ==
    IF names = {} THEN acc
    ELSE LET n == CHOOSE x \in names : TRUE
             r == load(acc.tracker, namespaced(layer, n))
         IN LoadEach(layer, names \ {n},
                     [tracker |-> r.tracker,
                      poppable_tensors |-> Put(acc.poppable_tensors, n, r.tensor)])

\* forward, "Load skip tensors that might be popped": the poppable names are
\* visited in the frozenset's order; `before` are those loaded before `miss`,
\* the first one absent from the tracker (miss = None: all are loaded)
forward_load(layer, t, before, miss) ==
    LET r == LoadEach(layer, before, [tracker |-> t, poppable_tensors |-> EmptyDict])
    IN [tracker |-> r.tracker,
        poppable_tensors |-> r.poppable_tensors,
        err |-> IF miss = None THEN NoErr ELSE Err("MissingSkip", {miss})]

\* the (before, miss) pairs the iteration order allows
LoadOutcomes(layer, t) ==
    LET P == layer.poppable_names
        missing == {n \in P : ~CanLoad(t, namespaced(layer, n))}
    IN IF missing = {}
       THEN {<<P, None>>}
       ELSE {<<S, n>> : S \in SUBSET (P \ missing), n \in missing}

\* handle_stash as it would be if it kept the first tensor stashed under a name
handle_stash_keep_first(layer, c, name, tensor) ==
    IF name \notin layer.stashable_names
    THEN [call |-> c, err |-> Err("UndeclaredStash", {name})]
    ELSE IF name \in DOMAIN c.stashed_tensors
    THEN [call |-> c, err |-> NoErr]
    ELSE [call |-> [c EXCEPT !.stashed_tensors = Put(@, name, tensor)],
          err |-> NoErr]

\* handle_stash as it would be if it recorded the tensor before the check
handle_stash_record_first(layer, c, name, tensor) ==
    IF name \notin layer.stashable_names
    THEN [call |-> [c EXCEPT !.stashed_tensors = Put(@, name, tensor)],
          err |-> Err("UndeclaredStash", {name})]
    ELSE [call |-> [c EXCEPT !.stashed_tensors = Put(@, name, tensor)],
          err |-> NoErr]

\* forward.handle_stash
handle_stash(layer, c, name, tensor) ==
    IF name \notin layer.stashable_names
    THEN [call |-> c, err |-> Err("UndeclaredStash", {name})]
    ELSE [call |-> [c EXCEPT !.stashed_tensors = Put(@, name, tensor)],
          err |-> NoErr]

\* handle_pop as it would be if it read poppable_tensors[name] and left it there
handle_pop_keep(layer, c, name) ==
    IF name \notin layer.poppable_names
    THEN [call |-> c, err |-> Err("UndeclaredPop", {name})]
    ELSE IF name \notin DOMAIN c.poppable_tensors
    THEN [call |-> c, err |-> Err("KeyError", {name})]
    ELSE [call |-> [c EXCEPT !.inj = Append(@, <<name, c.poppable_tensors[name]>>)],
          err |-> NoErr]

\* handle_pop as it would be without its return statement: None is injected
handle_pop_no_return(layer, c, name) ==
    IF name \notin layer.poppable_names
    THEN [call |-> c, err |-> Err("UndeclaredPop", {name})]
    ELSE IF name \notin DOMAIN c.poppable_tensors
    THEN [call |-> c, err |-> Err("KeyError", {name})]
    ELSE [call |-> [c EXCEPT !.poppable_tensors = Del(@, {name}),
                             !.inj = Append(@, <<name, None>>)],
          err |-> NoErr]

\* forward.handle_pop: poppable_tensors.pop(name) raises KeyError when absent
handle_pop(layer, c, name) ==
    IF name \notin layer.poppable_names
    THEN [call |-> c, err |-> Err("UndeclaredPop", {name})]
    ELSE IF name \notin DOMAIN c.poppable_tensors
    THEN [call |-> c, err |-> Err("KeyError", {name})]
    ELSE [call |-> [c EXCEPT !.poppable_tensors = Del(@, {name}),
                             !.inj = Append(@, <<name, c.poppable_tensors[name]>>)],
          err |-> NoErr]

\* dispatch as it would be if it handled a stash and then waited, without
\* calling next(generator)
dispatch_no_next(layer, c) ==
    LET r == CASE c.op.kind = "stash" -> handle_stash(layer, c, c.op.name, c.op.tensor)
               [] c.op.kind = "pop" -> handle_pop(layer, c, c.op.name)
               [] OTHER -> [call |-> c, err |-> Err("TypeError", {})]
    IN IF r.err = NoErr /\ c.op.kind = "pop"
       THEN [call |-> [r.call EXCEPT !.gen = "Running", !.op = NoOp], err |-> NoErr]
       ELSE r

\* dispatch as it would be if it skipped an object that is no command and
\* resumed the generator
dispatch_ignore_other(layer, c) ==
    LET r == CASE c.op.kind = "stash" -> handle_stash(layer, c, c.op.name, c.op.tensor)
               [] c.op.kind = "pop" -> handle_pop(layer, c, c.op.name)
               [] OTHER -> [call |-> c, err |-> NoErr]
    IN IF r.err = NoErr
       THEN [call |-> [r.call EXCEPT !.gen = "Running", !.op = NoOp], err |-> NoErr]
       ELSE r

\* dispatch, one turn of `while True`: handle the yielded op and resume the
\* generator (next / send), or raise
dispatch(layer, c) ==
    LET r == CASE c.op.kind = "stash" -> handle_stash(layer, c, c.op.name, c.op.tensor)
               [] c.op.kind = "pop" -> handle_pop(layer, c, c.op.name)
               [] OTHER -> [call |-> c, err |-> Err("TypeError", {})]
    IN IF r.err = NoErr
       THEN [call |-> [r.call EXCEPT !.gen = "Running", !.op = NoOp], err |-> NoErr]
       ELSE r

\* forward, "Save stashed skip tensors"
RECURSIVE SaveEach(_, _, _, _)
SaveEach(layer, names, stashed_tensors, t) ==
    IF names = {} THEN t
    ELSE LET n == CHOOSE x \in names : TRUE
         IN SaveEach(layer, names \ {n}, stashed_tensors,
                     save(t, namespaced(layer, n), stashed_tensors[n]))

\* the end of forward as it would be if not_popped were tested before not_stashed
forward_finish_pop_check_first(layer, c, t) ==
    LET not_stashed == layer.stashable_names \ DOMAIN c.stashed_tensors
        not_popped == DOMAIN c.poppable_tensors
    IN IF not_popped # {}
       THEN [tracker |-> t, err |-> Err("UnconsumedPop", not_popped)]
       ELSE IF not_stashed # {}
       THEN [tracker |-> t, err |-> Err("IncompleteStash", not_stashed)]
       ELSE [tracker |-> SaveEach(layer, layer.stashable_names, c.stashed_tensors, t),
             err |-> NoErr]

\* the end of forward as it would be if the saves came before the two checks
forward_finish_save_first(layer, c, t) ==
    LET not_stashed == layer.stashable_names \ DOMAIN c.stashed_tensors
        not_popped == DOMAIN c.poppable_tensors
        saved == SaveEach(layer, layer.stashable_names \cap DOMAIN c.stashed_tensors,
                          c.stashed_tensors, t)
    IN IF not_stashed # {}
       THEN [tracker |-> saved, err |-> Err("IncompleteStash", not_stashed)]
       ELSE IF not_popped # {}
       THEN [tracker |-> saved, err |-> Err("UnconsumedPop", not_popped)]
       ELSE [tracker |-> saved, err |-> NoErr]

\* the end of forward as it would be without the check of poppable_tensors
forward_finish_no_pop_check(layer, c, t) ==
    LET not_stashed == layer.stashable_names \ DOMAIN c.stashed_tensors
    IN IF not_stashed # {}
       THEN [tracker |-> t, err |-> Err("IncompleteStash", not_stashed)]
       ELSE [tracker |-> SaveEach(layer, layer.stashable_names, c.stashed_tensors, t),
             err |-> NoErr]

\* the end of forward as it would be if each check reported the first name only
forward_finish_first_only(layer, c, t) ==
    LET not_stashed == layer.stashable_names \ DOMAIN c.stashed_tensors
        not_popped == DOMAIN c.poppable_tensors
    IN IF not_stashed # {}
       THEN [tracker |-> t,
             err |-> Err("IncompleteStash", {CHOOSE n \in not_stashed : TRUE})]
       ELSE IF not_popped # {}
       THEN [tracker |-> t,
             err |-> Err("UnconsumedPop", {CHOOSE n \in not_popped : TRUE})]
       ELSE [tracker |-> SaveEach(layer, layer.stashable_names, c.stashed_tensors, t),
             err |-> NoErr]

\* forward, after dispatch returned: the two completeness checks, then the saves
forward_finish(layer, c, t) ==
    LET not_stashed == layer.stashable_names \ DOMAIN c.stashed_tensors
        not_popped == DOMAIN c.poppable_tensors
    IN IF not_stashed # {}
       THEN [tracker |-> t, err |-> Err("IncompleteStash", not_stashed)]
       ELSE IF not_popped # {}
       THEN [tracker |-> t, err |-> Err("UnconsumedPop", not_popped)]
       ELSE [tracker |-> SaveEach(layer, layer.stashable_names, c.stashed_tensors, t),
             err |-> NoErr]

\* forward's result as it would be if it handed back the tensor it was given
forward_output_input(c, input) == input

\* forward, `output = batch.tensor_or_tensors; return output`: what dispatch
\* returned (the generator's return value, or the plain return value of the
\* fast path)
forward_output(c, input) == c.output

(* ------------------------------- history ------------------------------ *)

\* the tensor of the last stash(name, _) in a call's trace of yielded commands
RECURSIVE LastStash(_, _, _)
LastStash(trace, name, i) ==
    IF i = 0 THEN None
    ELSE IF trace[i].kind = "stash" /\ trace[i].name = name THEN trace[i].tensor
    ELSE LastStash(trace, name, i - 1)

StashedNames(trace) == {trace[i].name : i \in {j \in DOMAIN trace : trace[j].kind = "stash"}}

\* what a completed call leaves in the log: per stash name the last tensor the
\* computation stashed, the names it was injected, whether a save hit a live slot
LogEntry(layer, c, t) ==
    [stashed |-> [n \in StashedNames(c.trace) |-> LastStash(c.trace, n, Len(c.trace))],
     popped |-> {c.inj[i][1] : i \in DOMAIN c.inj},
     overwrote |-> stashable(layer) \cap DOMAIN t # {}]

VARIABLES
    module,     \* the nn.Sequential: a sequence of layers
    nisolate,   \* isolate() calls made so far
    phase,      \* "build", "run"
    verifier,   \* verify_skippables: [stashed, popped, msgs, scanned, verdict],
                \* verdict "none" (not called yet), "ok" or "TypeError"
    tracker,    \* per micro-batch: the SkipTracker, a dict key -> tensor
    stage,      \* per micro-batch: the layer it is at
    payload,    \* per micro-batch: the tensor flowing between layers
    call,       \* per micro-batch: the forward call in progress (or the last one)
    status,     \* per micro-batch: "absent", "ready", "forward", "failed", "finished"
    err,        \* per micro-batch: the error its forward raised
    log         \* per micro-batch: history, one LogEntry per completed layer

vars == <<module, nisolate, phase, verifier,
          tracker, stage, payload, call, status, err, log>>

buildVars == <<module, nisolate>>
verifyVars == <<verifier>>
runVars == <<tracker, stage, payload, call, status, err, log>>

InitVerifier ==
    verifier = [stashed |-> {}, popped |-> {}, msgs |-> EmptyBag, scanned |-> 0,
                verdict |-> "none"]

\* micro-batches `inflight` enter the pipeline with an empty tracker each
InitRun(inflight) ==
    /\ tracker = [mb \in MicroBatches |-> EmptyDict]
    /\ stage = [mb \in MicroBatches |-> 1]
    /\ payload = [mb \in MicroBatches |-> "X"]
    /\ call = [mb \in MicroBatches |-> IdleCall]
    /\ status = [mb \in MicroBatches |-> IF mb \in inflight THEN "ready" ELSE "absent"]
    /\ err = [mb \in MicroBatches |-> NoErr]
    /\ log = [mb \in MicroBatches |-> <<>>]

InitBuild ==
    /\ module = <<>>
    /\ nisolate = 0
    /\ phase = "build"
    /\ InitVerifier

\* nn.Sequential(...) under construction: one more layer out of `choices`
AddLayer(choices) ==
    /\ phase = "build"
    /\ Len(module) < MaxLayers
    /\ \E l \in choices :
          /\ SumDecls(module, Len(module)) + NDecls(l) <= MaxDecls
          /\ module' = Append(module, l)
    /\ UNCHANGED <<nisolate, phase, verifyVars, runVars>>

\* layer.isolate(ns, only=...) on one instance of the pipeline under construction
Isolate ==
    /\ phase = "build"
    /\ nisolate < MaxIsolate
    /\ \E i \in 1..Len(module), ns \in Namespaces, only \in OnlyChoices :
          /\ module[i].skippable
          /\ module' = [module EXCEPT ![i] = isolate(module[i], ns, only)]
    /\ nisolate' = nisolate + 1
    /\ UNCHANGED <<phase, verifyVars, runVars>>

\* verify_skippables(module), called once when the pipeline is constructed
Verify ==
    /\ phase = "build"
    /\ verifier' = verify_skippables(module)
    /\ phase' = "run"
    /\ UNCHANGED <<buildVars, runVars>>

Fail(mb, e) ==
    /\ status' = [status EXCEPT ![mb] = "failed"]
    /\ err' = [err EXCEPT ![mb] = e]

Advance(mb) ==
    /\ stage' = [stage EXCEPT ![mb] = @ + 1]
    /\ status' = [status EXCEPT ![mb] =
                    IF stage[mb] = Len(module) THEN "finished" ELSE "ready"]

\* a plain nn.Module of the sequence: no skip tracking
PlainForward(mb) ==
    /\ phase = "run"
    /\ status[mb] = "ready"
    /\ stage[mb] <= Len(module)
    /\ ~module[stage[mb]].skippable
    /\ \E out \in Tensors : payload' = [payload EXCEPT ![mb] = out]
    /\ log' = [log EXCEPT ![mb] =
                 Append(@, [stashed |-> EmptyDict, popped |-> {}, overwrote |-> FALSE])]
    /\ Advance(mb)
    /\ UNCHANGED <<buildVars, phase, verifyVars, tracker, call, err>>

\* Skippable.forward up to the call of the wrapped module: the loads, then
\* self.module(input) hands back a generator or, with no yield, the output
ForwardBegin(mb) ==
    /\ phase = "run"
    /\ status[mb] = "ready"
    /\ stage[mb] <= Len(module)
    /\ module[stage[mb]].skippable
    /\ LET layer == module[stage[mb]]
           skip_tracker == current_skip_tracker(tracker, mb)
       IN \E o \in LoadOutcomes(layer, skip_tracker) :
            LET r == forward_load(layer, skip_tracker, o[1], o[2])
                c == [IdleCall EXCEPT !.stage = stage[mb],
                                      !.poppable_tensors = r.poppable_tensors]
            IN /\ tracker' = [tracker EXCEPT ![mb] = r.tracker]
               /\ IF r.err # NoErr
                  THEN /\ call' = [call EXCEPT ![mb] = c]
                       /\ Fail(mb, r.err)
                  ELSE /\ \/ call' = [call EXCEPT ![mb] = [c EXCEPT !.gen = "Running"]]
                          \/ \E out \in Tensors :
                               call' = [call EXCEPT ![mb] =
                                          [c EXCEPT !.gen = "Returned", !.output = out]]
                       /\ status' = [status EXCEPT ![mb] = "forward"]
                       /\ err' = err
    /\ UNCHANGED <<buildVars, phase, verifyVars, stage, payload, log>>

\* the computation runs to its next yield, or to its return (StopIteration)
GenStep(mb) ==
    /\ status[mb] = "forward"
    /\ call[mb].gen = "Running"
    /\ \/ /\ Len(call[mb].trace) < MaxOps
          /\ \E op \in Commands :
               call' = [call EXCEPT ![mb] =
                          [@ EXCEPT !.gen = "Yielded", !.op = op,
                                    !.trace = Append(@, op)]]
       \/ \E out \in Tensors :
            call' = [call EXCEPT ![mb] = [@ EXCEPT !.gen = "Completed", !.output = out]]
    /\ UNCHANGED <<buildVars, phase, verifyVars, tracker, stage, payload, status, err, log>>

\* dispatch handles the yielded command and resumes the computation, or raises
Dispatch(mb) ==
    /\ status[mb] = "forward"
    /\ call[mb].gen = "Yielded"
    /\ LET r == dispatch(module[stage[mb]], call[mb])
       IN /\ call' = [call EXCEPT ![mb] = r.call]
          /\ IF r.err = NoErr
             THEN UNCHANGED <<status, err>>
             ELSE Fail(mb, r.err)
    /\ UNCHANGED <<buildVars, phase, verifyVars, tracker, stage, payload, log>>

\* forward after dispatch returned: completeness checks, saves, the output
ForwardFinish(mb) ==
    /\ status[mb] = "forward"
    /\ call[mb].gen \in {"Completed", "Returned"}
    /\ LET layer == module[stage[mb]]
           skip_tracker == current_skip_tracker(tracker, mb)
           r == forward_finish(layer, call[mb], skip_tracker)
       IN IF r.err # NoErr
          THEN /\ Fail(mb, r.err)
               /\ tracker' = [tracker EXCEPT ![mb] = r.tracker]
               /\ UNCHANGED <<stage, payload, log>>
          ELSE /\ tracker' = [tracker EXCEPT ![mb] = r.tracker]
               /\ payload' = [payload EXCEPT ![mb] = forward_output(call[mb], @)]
               /\ log' = [log EXCEPT ![mb] =
                            Append(@, LogEntry(layer, call[mb], skip_tracker))]
               /\ Advance(mb)
               /\ err' = err
    /\ UNCHANGED <<buildVars, phase, verifyVars, call>>

Run(mb) ==
    \/ PlainForward(mb)
    \/ ForwardBegin(mb)
    \/ GenStep(mb)
    \/ Dispatch(mb)
    \/ ForwardFinish(mb)

(* --------------------------- specifications --------------------------- *)

\* pipelines of fresh instances under construction: isolate calls, then the
\* verification
InitConstruct == InitBuild /\ InitRun({})
NextConstruct == AddLayer(LayerChoices) \/ Isolate \/ Verify
SpecConstruct == InitConstruct /\ [][NextConstruct]_vars

\* a layer after the isolate calls that bind each name of DOMAIN f to f[name]
RECURSIVE IsolateBy(_, _, _)
IsolateBy(layer, f, nss) ==
    IF nss = {} THEN layer
    ELSE LET ns == CHOOSE x \in nss : TRUE
             only == [given |-> TRUE, names |-> {n \in DOMAIN f : f[n] = ns}]
         IN IsolateBy(IF only.names = {} THEN layer ELSE isolate(layer, ns, only),
                      f, nss \ {ns})

\* a layer with each of its declared names left alone or isolated
Variants(layer) ==
    {IsolateBy(layer, f, Namespaces) :
        f \in UNION {[S -> Namespaces] :
                        S \in SUBSET (layer.stashable_names \cup layer.poppable_names)}}

IsolatedLayerChoices == UNION {Variants(l) : l \in LayerChoices}

\* pipelines of instances isolated in every way, handed to verify_skippables
InitVerify == InitBuild /\ InitRun({})
NextVerify == AddLayer(IsolatedLayerChoices) \/ Verify
SpecVerify == InitVerify /\ [][NextVerify]_vars

\* one micro-batch through a verified or rejected pipeline of non-isolated layers
Init == InitBuild /\ InitRun({"mb1"})
Next == AddLayer(LayerChoices) \/ Verify \/ Run("mb1")
Spec == Init /\ [][Next]_vars

\* pipelines of isolated single-name stages, as in the usage of isolate:
\* every layer is plain or stashes or pops the one skip name, in a namespace
\* or in none
IsoChoices(n) ==
    LET types == {NewSkippable({n}, {}), NewSkippable({}, {n})}
    IN {PlainModule} \cup types
         \cup {isolate(l, ns, [given |-> FALSE, names |-> {}]) :
                   l \in types, ns \in Namespaces}

InitIsolated ==
    /\ \E n \in Names : module \in [1..UsageLayers -> IsoChoices(n)]
    /\ nisolate = 0
    /\ phase = "build"
    /\ InitVerifier
    /\ InitRun({"mb1"})

NextIsolate == Verify \/ Run("mb1")
SpecIsolate == InitIsolated /\ [][NextIsolate]_vars

\* two micro-batches interleaved through the three-stage pipeline
\* [Stage1(stash={s}), Stage2(), Stage3(pop={s})]
InitMB ==
    /\ module = <<NewSkippable({"s"}, {}), PlainModule, NewSkippable({}, {"s"})>>
    /\ nisolate = 0
    /\ phase = "build"
    /\ InitVerifier
    /\ InitRun(MicroBatches)

NextMB == Verify \/ \E mb \in MicroBatches : Run(mb)
SpecMB == InitMB /\ [][NextMB]_vars

\* one micro-batch through a chain of two skips: the first stage stashes a,
\* a plain layer follows, the third stage pops a and stashes b, the last
\* stage pops b
ChainPipelines ==
    {<<NewSkippable({a}, {}), PlainModule, NewSkippable({b}, {a}),
       NewSkippable({}, {b})>> : a \in Names, b \in Names}

InitChain ==
    /\ module \in ChainPipelines
    /\ nisolate = 0
    /\ phase = "build"
    /\ InitVerifier
    /\ InitRun({"mb1"})

NextChain == Verify \/ Run("mb1")
SpecChain == InitChain /\ [][NextChain]_vars

\* isolate calls on the instances of a two-layer sequence, then the verification
InitPair ==
    /\ module \in {<<a, b>> : a \in LayerChoices, b \in LayerChoices}
    /\ nisolate = 0
    /\ phase = "build"
    /\ InitVerifier
    /\ InitRun({})

NextPair == Isolate \/ Verify
SpecPair == InitPair /\ [][NextPair]_vars

\* the steps inside one forward call: a synchronous Python call, once begun,
\* keeps running until it returns or raises
InCall(mb) == GenStep(mb) \/ Dispatch(mb) \/ ForwardFinish(mb)

\* the interleaved micro-batches, every forward call running on to its end
SpecMBLive == SpecMB /\ \A mb \in MicroBatches : WF_vars(InCall(mb))

(* ------------------------- notions of the claims ---------------------- *)

Skippables == {i \in 1..Len(module) : module[i].skippable}

\* two instances of one stage type, neither isolated
SameTypeNotIsolated(i, j) ==
    /\ i \in Skippables /\ j \in Skippables /\ i < j
    /\ module[i].stashable_names = module[j].stashable_names
    /\ module[i].poppable_names = module[j].poppable_names
    /\ DOMAIN module[i].namespaces = {}
    /\ DOMAIN module[j].namespaces = {}

\* names a layer declares on one side only
StashOnly(i) == module[i].stashable_names \ module[i].poppable_names
PopOnly(i) == module[i].poppable_names \ module[i].stashable_names

Max(S) == CHOOSE x \in S : \A y \in S : y <= x

\* steps of one micro-batch, told by what they change
BeginStep(mb) ==
    /\ status[mb] = "ready"
    /\ status'[mb] # "ready" \/ stage'[mb] # stage[mb]
    /\ module[stage[mb]].skippable
DispatchStep(mb) ==
    /\ status[mb] = "forward"
    /\ call[mb].gen = "Yielded"
    /\ call'[mb] # call[mb] \/ status'[mb] # status[mb]
FinishStep(mb) ==
    /\ status[mb] = "forward"
    /\ call[mb].gen \in {"Completed", "Returned"}
    /\ status'[mb] # "forward"

\* completed stages of mb whose computation stashed / was injected the key
Stashers(mb, key) ==
    {i \in DOMAIN log[mb] :
        key[2] \in DOMAIN log[mb][i].stashed /\ namespaced(module[i], key[2]) = key}
Poppers(mb, key) ==
    {i \in DOMAIN log[mb] :
        key[2] \in log[mb][i].popped /\ namespaced(module[i], key[2]) = key}

\* pop(name) was yielded before the command now pending
PoppedBefore(c, name) ==
    \E x \in 1..(Len(c.trace) - 1) : c.trace[x] = Pop(name)

(* -------------------------------- claims ------------------------------ *)

\* the four conditions on the declarations of a sequence
C1_Structural ==
    /\ \A i \in Skippables :
          module[i].stashable_names \cap module[i].poppable_names = {}
    /\ \A i, j \in Skippables :
          i # j => /\ stashable(module[i]) \cap stashable(module[j]) = {}
                   /\ poppable(module[i]) \cap poppable(module[j]) = {}
    /\ \A j \in Skippables : \A k \in poppable(module[j]) :
          \E i \in Skippables : i < j /\ k \in stashable(module[i])
    /\ \A i \in Skippables : \A k \in stashable(module[i]) :
          \E j \in Skippables : k \in poppable(module[j])

\* C1: verify_skippables accepts a sequence exactly when no stage declares a
\* name on both sides, every key is declared stashable by at most one stage
\* and poppable by at most one, every poppable key is declared stashable by a
\* strictly earlier stage, and every stashable key is declared poppable.
C1_AcceptsIffMatched ==
    verifier.verdict # "none" => (verifier.verdict = "ok" <=> C1_Structural)

\* an accepted pipeline with a matched pair in an explicit namespace
C1_Witness ==
    /\ verifier.verdict = "ok"
    /\ \E i \in Skippables : \E k \in stashable(module[i]) : k[1] # None

\* the sequence [Stage(stash={a}), Stage(pop={b})]
C2_Example(a, b) == <<NewSkippable({a}, {}), NewSkippable({}, {b})>>

\* C2: verify_skippables scans every layer, raises once, and the error holds
\* a message for every finding: every both-sides name, every redeclared
\* stashable key, every poppable key no earlier stage stashes, every stashed
\* key no stage pops; for [Stage(stash={s}), Stage(pop={t})] it holds exactly
\* "t declared poppable but not stashed" and "s not declared poppable".
C2_AllFindingsInOneError ==
    verifier.verdict # "none" =>
      /\ verifier.scanned = Len(module)
      /\ verifier.verdict = "TypeError" <=> verifier.msgs # EmptyBag
      /\ \A i \in Skippables :
            /\ \A n \in module[i].stashable_names \cap module[i].poppable_names :
                  BagIn(Msg("both", i, n), verifier.msgs)
            /\ \A n \in StashOnly(i) :
                  (\E h \in Skippables :
                      /\ h < i
                      /\ \E x \in StashOnly(h) :
                            namespaced(module[h], x) = namespaced(module[i], n))
                  => BagIn(Msg("restash", i, n), verifier.msgs)
            /\ \A n \in PopOnly(i) :
                  (~\E h \in Skippables :
                      /\ h < i
                      /\ \E x \in StashOnly(h) :
                            namespaced(module[h], x) = namespaced(module[i], n))
                  => BagIn(Msg("notstashed", i, n), verifier.msgs)
            /\ \A n \in StashOnly(i) :
                  (~\E h \in Skippables : \E x \in PopOnly(h) :
                        namespaced(module[h], x) = namespaced(module[i], n))
                  => BagIn(Msg("neverpopped", 0, n), verifier.msgs)
      /\ \A a, b \in Names :
            (a # b /\ module = C2_Example(a, b)) =>
                /\ verifier.verdict = "TypeError"
                /\ verifier.msgs = SetToBag({Msg("notstashed", 2, b),
                                             Msg("neverpopped", 0, a)})

\* the example sequence, verified
C2_Witness ==
    /\ verifier.verdict = "TypeError"
    /\ module = C2_Example("s", "t")

\* C3: in a pipeline verify_skippables accepted, a micro-batch that starts
\* with an empty tracker never fails with "has not been stashed", no save
\* hits a key still in the tracker, and the tracker is empty after the last stage.
C3_VerifiedRunsClean ==
    verifier.verdict = "ok" =>
        \A mb \in MicroBatches :
            /\ err[mb].type # "MissingSkip"
            /\ \A k \in DOMAIN log[mb] : ~log[mb][k].overwrote
            /\ status[mb] = "finished" => tracker[mb] = EmptyDict

\* an accepted pipeline ran to its end and a skip went through it
C3_Witness ==
    /\ verifier.verdict = "ok"
    /\ status["mb1"] = "finished"
    /\ \E k \in DOMAIN log["mb1"] : log["mb1"][k].popped # {}

\* C4: the value injected for pop(n) is the value of the last stash(n, v) of
\* the latest earlier stage that stashes the same (namespace, name) key,
\* whatever the namespace, the name, the value (None included) and the
\* stages in between.
C4_RoundTrip ==
    \A mb \in MicroBatches :
        LET c == call[mb]
        IN \A x \in DOMAIN c.inj :
             LET n == c.inj[x][1]
                 key == namespaced(module[c.stage], n)
                 I == {i \in 1..(c.stage - 1) : key \in stashable(module[i])}
             IN /\ I # {}
                /\ Max(I) \in DOMAIN log[mb]
                /\ n \in DOMAIN log[mb][Max(I)].stashed
                /\ c.inj[x][2] = log[mb][Max(I)].stashed[n]

\* None stashed in an explicit namespace came out two or more stages later
C4_Witness ==
    \E x \in DOMAIN call["mb1"].inj :
        LET c == call["mb1"]
            key == namespaced(module[c.stage], c.inj[x][1])
        IN /\ c.inj[x][2] = None
           /\ key[1] # None
           /\ \A i \in 1..(c.stage - 1) :
                 key \in stashable(module[i]) => i + 2 <= c.stage

\* the first pop of a key stashed once: neither the load at the start of the
\* popping stage nor the pop command fails
C5_FirstPopSucceeds(mb) ==
    /\ BeginStep(mb) =>
          \A n \in module[stage[mb]].poppable_names :
              LET key == namespaced(module[stage[mb]], n)
              IN (Cardinality(Stashers(mb, key)) = 1 /\ Poppers(mb, key) = {})
                   => ~(status'[mb] = "failed" /\ n \in err'[mb].names)
    /\ (/\ DispatchStep(mb)
        /\ call[mb].op.kind = "pop"
        /\ call[mb].op.name \in module[stage[mb]].poppable_names
        /\ ~PoppedBefore(call[mb], call[mb].op.name))
          => /\ status'[mb] = "forward"
             /\ Len(call'[mb].inj) = Len(call[mb].inj) + 1

\* a later stage that declares a key already popped fails in its load
C5_LaterStagePopFails(mb) ==
    BeginStep(mb) =>
        ((\E n \in module[stage[mb]].poppable_names :
            LET key == namespaced(module[stage[mb]], n)
            IN Cardinality(Stashers(mb, key)) = 1 /\ Cardinality(Poppers(mb, key)) = 1)
         => /\ status'[mb] = "failed"
            /\ err'[mb].type = "MissingSkip")

\* the same computation popping a name again fails with an error of `type`
C5_SameStagePopFails(mb, type) ==
    (/\ DispatchStep(mb)
     /\ call[mb].op.kind = "pop"
     /\ call[mb].op.name \in module[stage[mb]].poppable_names
     /\ PoppedBefore(call[mb], call[mb].op.name))
       => /\ status'[mb] = "failed"
          /\ err'[mb] = Err(type, {call[mb].op.name})

\* C5: after one stash of a key, the first pop succeeds and a second pop, by
\* a later stage or by the same computation again, fails with the "has not
\* been stashed" error.
C5_Original ==
    [][\A mb \in MicroBatches :
          /\ C5_FirstPopSucceeds(mb)
          /\ C5_LaterStagePopFails(mb)
          /\ C5_SameStagePopFails(mb, "MissingSkip")]_vars

\* what forward does instead: the second pop by a later stage fails with the
\* "has not been stashed" error; the second pop by the same computation fails
\* with the KeyError of poppable_tensors.pop.
C5_KeyErrorOnSecondPop ==
    [][\A mb \in MicroBatches :
          /\ C5_FirstPopSucceeds(mb)
          /\ C5_LaterStagePopFails(mb)
          /\ C5_SameStagePopFails(mb, "KeyError")]_vars

\* a computation popped a declared name, was injected, and popped it again
C5_Witness ==
    /\ status["mb1"] = "failed"
    /\ err["mb1"].type = "KeyError"
    /\ Len(call["mb1"].inj) = 1
    /\ call["mb1"].op = Pop(call["mb1"].inj[1][1])

\* C6 (as stated): two non-isolated instances of one stage type never address
\* the same key: the verifier reports no redeclaration for the second, and
\* the second never saves over a value the first stashed.
C6_Original ==
    \A i, j \in Skippables :
        SameTypeNotIsolated(i, j) =>
            /\ verifier.verdict # "none" =>
                  \A n \in Names : /\ ~BagIn(Msg("restash", j, n), verifier.msgs)
                                   /\ ~BagIn(Msg("repop", j, n), verifier.msgs)
            /\ \A mb \in MicroBatches :
                  j \in DOMAIN log[mb] => ~log[mb][j].overwrote

\* C6 (amended): a name never isolated is addressed under the one
\* default namespace None, so two non-isolated instances of one stage type
\* address the same key: the verifier reports the second one's stashable
\* names as redeclared, and at runtime the second one's save hits the slot
\* the first one filled unless a stage in between popped it.
C6_SharedDefaultNamespace ==
    /\ \A i \in Skippables : \A n \in Names :
          n \notin DOMAIN module[i].namespaces
              => namespaced(module[i], n) = <<None, n>>
    /\ \A i, j \in Skippables :
          SameTypeNotIsolated(i, j) =>
            \A n \in StashOnly(j) :
              /\ verifier.verdict # "none"
                    => BagIn(Msg("restash", j, n), verifier.msgs)
              /\ \A mb \in MicroBatches :
                    (/\ j \in DOMAIN log[mb]
                     /\ \A h \in (i + 1)..(j - 1) : n \notin module[h].poppable_names)
                       => log[mb][j].overwrote

\* two plain Stash instances ran one after the other
C6_Witness ==
    \E i, j \in Skippables :
        /\ SameTypeNotIsolated(i, j)
        /\ StashOnly(j) # {}
        /\ j \in DOMAIN log["mb1"]
        /\ log["mb1"][j].overwrote

\* Stash(a), Stash(b), Pop(b), Pop(a), all of one name n
C7_Nested(n, a, b) ==
    LET all == [given |-> FALSE, names |-> {}]
    IN <<isolate(NewSkippable({n}, {}), a, all), isolate(NewSkippable({n}, {}), b, all),
         isolate(NewSkippable({}, {n}), b, all), isolate(NewSkippable({}, {n}), a, all)>>

\* the nested sequences over two distinct namespaces
C7_NestedPipelines ==
    {C7_Nested(n, p[1], p[2]) :
        n \in Names, p \in {q \in Namespaces \X Namespaces : q[1] # q[2]}}

\* C7: Stash(ns1), Stash(ns2), Pop(ns2), Pop(ns1) passes verification and each
\* Pop instance is injected the value stashed under its own namespace.
C7_NestedIsolation ==
    module \in C7_NestedPipelines =>
        /\ verifier.verdict \in {"none", "ok"}
        /\ \A mb \in MicroBatches :
              LET c == call[mb]
                  n == CHOOSE x \in module[1].stashable_names : TRUE
              IN /\ (c.stage = 3 /\ c.inj # <<>>)
                      => c.inj = <<<<n, log[mb][2].stashed[n]>>>>
                 /\ (c.stage = 4 /\ c.inj # <<>>)
                      => c.inj = <<<<n, log[mb][1].stashed[n]>>>>

\* the outer Pop got the outer Stash's value, which differs from the inner one
C7_Witness ==
    /\ module \in C7_NestedPipelines
    /\ call["mb1"].stage = 4
    /\ call["mb1"].inj # <<>>
    /\ \E n \in module[1].stashable_names :
          log["mb1"][1].stashed[n] # log["mb1"][2].stashed[n]

\* everything the run keeps for one micro-batch
StateOf(mb) ==
    <<tracker[mb], stage[mb], payload[mb], call[mb], status[mb], err[mb], log[mb]>>

\* what a micro-batch running alone keeps in its tracker and is injected
C8_AsAlone(mb) ==
    /\ err[mb].type # "MissingSkip"
    /\ tracker[mb] =
          IF Len(log[mb]) >= 1 /\ call[mb].stage < 3
          THEN [k \in {<<None, "s">>} |-> log[mb][1].stashed["s"]]
          ELSE EmptyDict
    /\ \A x \in DOMAIN call[mb].inj :
          call[mb].stage = 3 => call[mb].inj[x] = <<"s", log[mb][1].stashed["s"]>>

\* C8: with a tracker per micro-batch, under every interleaving a step of one
\* micro-batch leaves every other micro-batch's state alone, a micro-batch is
\* injected the value it stashed itself, its tracker holds only what it saved
\* and has not yet loaded, and it never misses its own skip.
C8_MicroBatchIndependence ==
    [][\A a, b \in MicroBatches :
          /\ C8_AsAlone(a)'
          /\ (a # b /\ StateOf(a)' # StateOf(a)) => StateOf(b)' = StateOf(b)]_vars

\* both micro-batches were injected, each its own value, the two differing
C8_Witness ==
    /\ call["mb1"].stage = 3 /\ call["mb1"].inj = <<<<"s", "X">>>>
    /\ call["mb2"].stage = 3 /\ call["mb2"].inj = <<<<"s", None>>>>

\* C9: a stash or pop of an undeclared name fails at that command with the
\* "has not been declared" error: the call state is left as it was (the
\* computation stays suspended, the stash is not recorded), the tracker is
\* not written by that call, and a failed micro-batch never moves again.
C9_UndeclaredFailsAtOnce ==
    [][\A mb \in MicroBatches :
          /\ (/\ DispatchStep(mb)
              /\ call[mb].op.kind = "stash"
              /\ call[mb].op.name \notin module[stage[mb]].stashable_names)
                => /\ status'[mb] = "failed"
                   /\ err'[mb] = Err("UndeclaredStash", {call[mb].op.name})
                   /\ call'[mb] = call[mb]
          /\ (/\ DispatchStep(mb)
              /\ call[mb].op.kind = "pop"
              /\ call[mb].op.name \notin module[stage[mb]].poppable_names)
                => /\ status'[mb] = "failed"
                   /\ err'[mb] = Err("UndeclaredPop", {call[mb].op.name})
                   /\ call'[mb] = call[mb]
          /\ (status[mb] = "forward" /\ status'[mb] \in {"forward", "failed"})
                => tracker'[mb] = tracker[mb]
          /\ status[mb] = "failed"
                => /\ status'[mb] = "failed"
                   /\ call'[mb] = call[mb]
                   /\ tracker'[mb] = tracker[mb]
                   /\ err'[mb] = err[mb]]_vars

\* a declared stash was recorded, then an undeclared one failed the call
C9_Witness ==
    /\ status["mb1"] = "failed"
    /\ err["mb1"].type = "UndeclaredStash"
    /\ DOMAIN call["mb1"].stashed_tensors # {}
    /\ err["mb1"].names \cap DOMAIN call["mb1"].stashed_tensors = {}

\* declared names the completed computation did not stash / did not pop
C10_NotStashed(mb) ==
    module[stage[mb]].stashable_names \ StashedNames(call[mb].trace)
C10_NotPopped(mb) ==
    module[stage[mb]].poppable_names \ {call[mb].inj[x][1] : x \in DOMAIN call[mb].inj}

\* forward fails with all of the unstashed names and saves nothing
C10_StashCheck(mb) ==
    (FinishStep(mb) /\ C10_NotStashed(mb) # {})
        => /\ status'[mb] = "failed"
           /\ err'[mb] = Err("IncompleteStash", C10_NotStashed(mb))
           /\ tracker'[mb] = tracker[mb]

\* forward fails with all of the unconsumed names and saves nothing
C10_PopCheck(mb, when) ==
    (FinishStep(mb) /\ when /\ C10_NotPopped(mb) # {})
        => /\ status'[mb] = "failed"
           /\ err'[mb] = Err("UnconsumedPop", C10_NotPopped(mb))
           /\ tracker'[mb] = tracker[mb]

\* C10 (as stated): after the computation completed, unstashed declared
\* names fail the call with the incomplete-stash error listing all of them,
\* and unconsumed preloaded values fail it with the unconsumed-pop error
\* listing all of them; nothing is saved in either case.
C10_Original ==
    [][\A mb \in MicroBatches : C10_StashCheck(mb) /\ C10_PopCheck(mb, TRUE)]_vars

\* C10 (amended): unstashed declared names fail the call with the
\* incomplete-stash error listing all of them; unconsumed preloaded values
\* fail it with the unconsumed-pop error listing all of them when every
\* declared stashable name was stashed; nothing is saved in either case.
C10_CompletenessChecks ==
    [][\A mb \in MicroBatches :
          /\ C10_StashCheck(mb)
          /\ C10_PopCheck(mb, C10_NotStashed(mb) = {})]_vars

\* a completed computation left a name unstashed and a preloaded value unconsumed
C10_Witness ==
    /\ status["mb1"] = "failed"
    /\ err["mb1"].type = "IncompleteStash"
    /\ call["mb1"].gen \in {"Completed", "Returned"}
    /\ DOMAIN call["mb1"].poppable_tensors # {}

\* a completed computation of an accepted pipeline left a preloaded value
\* unconsumed: forward fails with an error of type `type(mb)`
C11_UnpoppedFails(mb, type) ==
    (/\ verifier.verdict = "ok"
     /\ FinishStep(mb)
     /\ C10_NotPopped(mb) # {})
       => /\ status'[mb] = "failed"
          /\ err'[mb].type = type

\* C11 (as stated): in a pipeline verify_skippables accepted, a stage whose
\* poppable key was stashed earlier and whose computation completes without
\* popping it fails with the unconsumed-pop error.
C11_Original ==
    [][\A mb \in MicroBatches : C11_UnpoppedFails(mb, "UnconsumedPop")]_vars

\* C11 (amended): such a stage fails at runtime although the pipeline was
\* accepted: with the unconsumed-pop error naming the unpopped names when it
\* stashed every name it declares stashable, with the incomplete-stash error
\* otherwise.
C11_AcceptedYetFails ==
    [][\A mb \in MicroBatches :
          /\ C11_UnpoppedFails(mb, IF C10_NotStashed(mb) = {}
                                   THEN "UnconsumedPop" ELSE "IncompleteStash")
          /\ (/\ verifier.verdict = "ok"
              /\ FinishStep(mb)
              /\ C10_NotPopped(mb) # {}
              /\ C10_NotStashed(mb) = {})
                => err'[mb].names = C10_NotPopped(mb)]_vars

\* an accepted chain failed at its third stage with the unconsumed-pop error
\* after that stage stashed its own name
C11_Witness ==
    /\ verifier.verdict = "ok"
    /\ status["mb1"] = "failed"
    /\ err["mb1"].type = "UnconsumedPop"
    /\ stage["mb1"] = 3
    /\ DOMAIN call["mb1"].stashed_tensors # {}

\* a forward call whose computation completed without yielding any command
\* returns the computation's value and has not touched the tracker
C12_NoCommandNoTracker(mb) ==
    /\ status'[mb] # "failed"
    /\ payload'[mb] = call[mb].output
    /\ tracker'[mb] = tracker[mb]
    /\ call[mb].poppable_tensors = EmptyDict

\* C12 (as stated): for every stage whose computation never emits stash or
\* pop, forward returns the computation's return value unchanged and performs
\* no load from and no save into the tracker.
C12_Original ==
    [][\A mb \in MicroBatches :
          (FinishStep(mb) /\ call[mb].trace = <<>>)
              => C12_NoCommandNoTracker(mb)]_vars

\* C12 (amended): for every stage that declares no stashable and no poppable
\* name and whose computation never emits stash or pop, forward returns the
\* computation's return value unchanged and performs no load from and no save
\* into the tracker.
C12_FastPath ==
    [][\A mb \in MicroBatches :
          (/\ FinishStep(mb)
           /\ call[mb].trace = <<>>
           /\ module[stage[mb]].stashable_names = {}
           /\ module[stage[mb]].poppable_names = {})
              => C12_NoCommandNoTracker(mb)]_vars

\* a stage without declarations returned, with no yield, a tensor other than
\* its input while the tracker held a skip
C12_Witness ==
    /\ call["mb1"].gen = "Returned"
    /\ call["mb1"].stage \in DOMAIN log["mb1"]
    /\ NDecls(module[call["mb1"].stage]) = 0
    /\ payload["mb1"] = "Y"
    /\ stage["mb1"] = call["mb1"].stage + 1
    /\ tracker["mb1"] # EmptyDict

\* C13: a yielded object that is neither a stash nor a pop command fails the
\* dispatch with the TypeError at that command; the computation is left
\* suspended and never resumed, the tracker is not written by the failing
\* step nor by any earlier step of the running call, and nothing of the
\* micro-batch changes afterwards, so values stashed earlier in the call are
\* never saved.
C13_ProtocolErrorIsFatal ==
    [][\A mb \in MicroBatches :
          /\ (DispatchStep(mb) /\ call[mb].op.kind = "other")
                => /\ status'[mb] = "failed"
                   /\ err'[mb] = Err("TypeError", {})
                   /\ call'[mb] = call[mb]
                   /\ tracker'[mb] = tracker[mb]
          /\ (status[mb] = "forward" /\ status'[mb] = "forward")
                => tracker'[mb] = tracker[mb]
          /\ (status[mb] = "failed" /\ err[mb].type = "TypeError")
                => StateOf(mb)' = StateOf(mb)]_vars

\* a computation stashed a declared name and then yielded another object:
\* the call failed and the stashed value is not in the tracker
C13_Witness ==
    /\ status["mb1"] = "failed"
    /\ err["mb1"].type = "TypeError"
    /\ call["mb1"].gen = "Yielded"
    /\ DOMAIN call["mb1"].stashed_tensors # {}
    /\ tracker["mb1"] = EmptyDict

\* dictionary d holds nothing that dictionary e does not hold
SubDict(d, e) ==
    /\ DOMAIN d \subseteq DOMAIN e
    /\ \A k \in DOMAIN d : d[k] = e[k]

\* C14: a forward call changes its micro-batch's tracker only in its first
\* step, which removes the stage's poppable keys (all of them when the loads
\* succeed, some of them when a load fails) and nothing else, and in its last
\* step when both completeness checks passed, which sets the stage's
\* stashable keys to the stashed values and nothing else; every step in
\* between, and every failing step, adds no key and no value.
C14_TrackerFrame ==
    [][\A mb \in MicroBatches :
          LET layer == module[stage[mb]]
              t == tracker[mb]
          IN /\ BeginStep(mb) =>
                   /\ SubDict(tracker'[mb], t)
                   /\ DOMAIN t \ DOMAIN tracker'[mb] \subseteq poppable(layer)
                   /\ status'[mb] = "forward" =>
                         /\ tracker'[mb] = Del(t, poppable(layer))
                         /\ poppable(layer) \subseteq DOMAIN t
                         /\ \A n \in layer.poppable_names :
                               call'[mb].poppable_tensors[n] = t[namespaced(layer, n)]
             /\ (status[mb] = "forward" /\ ~FinishStep(mb)) => tracker'[mb] = t
             /\ (FinishStep(mb) /\ status'[mb] = "failed") => tracker'[mb] = t
             /\ (FinishStep(mb) /\ status'[mb] # "failed") =>
                   /\ DOMAIN tracker'[mb] = DOMAIN t \cup stashable(layer)
                   /\ \A k \in DOMAIN t \ stashable(layer) : tracker'[mb][k] = t[k]
                   /\ \A n \in layer.stashable_names :
                         tracker'[mb][namespaced(layer, n)] = call[mb].stashed_tensors[n]
                   /\ DOMAIN call[mb].poppable_tensors = {}
             /\ status[mb] \in {"failed", "finished"} => tracker'[mb] = t]_vars

\* a stage loaded one key and saved another, and its call completed
C14_Witness ==
    /\ Len(log["mb1"]) = 2
    /\ log["mb1"][2].popped = {"s"}
    /\ DOMAIN log["mb1"][2].stashed = {"t"}
    /\ DOMAIN tracker["mb1"] = {<<None, "t">>}

\* C15: the computation is Running, suspended on a yielded command, or
\* Completed. A pop of a name whose preloaded value is pending is answered by
\* resuming the computation once with that value, and no name is injected
\* twice in one call; a declared stash is answered by resuming it with
\* nothing injected; a suspended computation only ever moves on by being
\* resumed; and after the return the call handles no command and is never
\* resumed: its record changes only when the next stage's call begins.
C15_GeneratorProtocol ==
    [][\A mb \in MicroBatches :
          LET c == call[mb]
              d == call'[mb]
          IN /\ (/\ DispatchStep(mb)
                 /\ c.op.kind = "pop"
                 /\ c.op.name \in DOMAIN c.poppable_tensors)
                   => /\ status'[mb] = "forward"
                      /\ d.gen = "Running"
                      /\ d.inj = Append(c.inj, <<c.op.name, c.poppable_tensors[c.op.name]>>)
                      /\ d.trace = c.trace
             /\ (/\ DispatchStep(mb)
                 /\ c.op.kind = "stash"
                 /\ c.op.name \in module[stage[mb]].stashable_names)
                   => /\ status'[mb] = "forward"
                      /\ d.gen = "Running"
                      /\ d.inj = c.inj
                      /\ d.trace = c.trace
             /\ (d.stage = c.stage /\ d.inj # c.inj)
                   => /\ c.gen = "Yielded"
                      /\ c.op.kind = "pop"
                      /\ Len(d.inj) = Len(c.inj) + 1
             /\ \A x, y \in DOMAIN d.inj : d.inj[x][1] = d.inj[y][1] => x = y
             /\ (c.gen = "Yielded" /\ d # c)
                   => d.gen = "Running" /\ d.stage = c.stage
             /\ (c.gen = "Running" /\ d # c)
                   => d.gen \in {"Yielded", "Completed"} /\ d.stage = c.stage
             /\ (c.gen \in {"Completed", "Returned"} /\ d # c)
                   => /\ status[mb] = "ready"
                      /\ d.stage > c.stage
                      /\ d.trace = <<>> /\ d.inj = <<>>]_vars

\* a computation popped, was injected, stashed, was resumed, and returned
C15_Witness ==
    /\ call["mb1"].gen = "Completed"
    /\ Len(call["mb1"].inj) = 1
    /\ Len(call["mb1"].trace) = 2
    /\ call["mb1"].trace[1].kind = "pop"
    /\ call["mb1"].trace[2].kind = "stash"
    /\ DOMAIN call["mb1"].stashed_tensors # {}

\* the names a layer declares on both sides
BothNames(layer) == layer.stashable_names \cap layer.poppable_names

\* the sequence with every both-sides name taken out of its stage's declarations
WithoutBoth(m) ==
    [i \in DOMAIN m |->
        [m[i] EXCEPT !.stashable_names = @ \ BothNames(m[i]),
                     !.poppable_names = @ \ BothNames(m[i])]]

\* C16: a name declared stashable and poppable by one stage yields exactly one
\* "both" finding for that stage and nothing else: the stashed and popped keys
\* and all other findings are those of the sequence in which no stage
\* declares its both-sides names.
C16_BothSidesLeftOut ==
    verifier.verdict # "none" =>
        LET other == verify_skippables(WithoutBoth(module))
            both == {Msg("both", i, n) : i \in Skippables, n \in Names}
            mine == {Msg("both", i[1], i[2]) :
                        i \in {p \in Skippables \X Names : p[2] \in BothNames(module[p[1]])}}
        IN /\ verifier.msgs = other.msgs (+) SetToBag(mine)
           /\ \A m \in both : CopiesIn(m, verifier.msgs) = IF m \in mine THEN 1 ELSE 0
           /\ verifier.stashed = other.stashed
           /\ verifier.popped = other.popped

\* a stage declares s on both sides after a stage that stashes s: the only
\* findings are the one "both" finding and that s is never popped
C16_Witness ==
    /\ verifier.verdict = "TypeError"
    /\ Len(module) = 2
    /\ module[1] = NewSkippable({"s"}, {})
    /\ module[2] = NewSkippable({"s"}, {"s"})
    /\ verifier.msgs = SetToBag({Msg("both", 2, "s"), Msg("neverpopped", 0, "s")})

\* C17: a stash of a declared name the call has stashed before does not fail
\* the call, and when the call completes the tracker holds, for every
\* stashable name, the tensor of the last stash of that name in the call.
C17_LastStashWins ==
    [][\A mb \in MicroBatches :
          LET c == call[mb]
              layer == module[stage[mb]]
          IN /\ (/\ DispatchStep(mb)
                 /\ c.op.kind = "stash"
                 /\ c.op.name \in layer.stashable_names
                 /\ c.op.name \in DOMAIN c.stashed_tensors)
                   => /\ status'[mb] = "forward"
                      /\ err'[mb] = NoErr
                      /\ call'[mb].gen = "Running"
             /\ (FinishStep(mb) /\ status'[mb] # "failed")
                   => \A n \in layer.stashable_names :
                         tracker'[mb][namespaced(layer, n)] =
                             LastStash(c.trace, n, Len(c.trace))]_vars

\* a call stashed s twice, first "X" and then None, and None was saved
C17_Witness ==
    /\ call["mb1"].trace = <<Stash("s", "X"), Stash("s", None)>>
    /\ call["mb1"].stage \in DOMAIN log["mb1"]
    /\ <<None, "s">> \in DOMAIN tracker["mb1"]
    /\ tracker["mb1"][<<None, "s">>] = None

\* `new` is `old` with exactly the names isolate(ns, only) is to rebind bound
\* to ns: every other name keeps its namespace, the declarations are the same
C18_Rebound(old, new, ns, only) ==
    LET names == IF only.given THEN only.names
                 ELSE old.stashable_names \cup old.poppable_names
    IN /\ new.skippable = old.skippable
       /\ new.stashable_names = old.stashable_names
       /\ new.poppable_names = old.poppable_names
       /\ \A n \in Names :
             namespaced(new, n) = IF n \in names THEN <<ns, n>> ELSE namespaced(old, n)

\* C18: on every instance, fresh or isolated before, isolate(ns, only=S)
\* rebinds exactly the names of S, declared or not, and isolate(ns) exactly
\* the declared names; a call of isolate changes one instance in place and
\* leaves the other layers, the verifier and every tracker alone.
C18_IsolateFrame ==
    [][/\ \A i \in Skippables, ns \in Namespaces, only \in OnlyChoices :
             C18_Rebound(module[i], isolate(module[i], ns, only), ns, only)
       /\ nisolate' # nisolate =>
             /\ Len(module') = Len(module)
             /\ \E i \in Skippables, ns \in Namespaces, only \in OnlyChoices :
                   /\ C18_Rebound(module[i], module'[i], ns, only)
                   /\ \A j \in DOMAIN module : j # i => module'[j] = module[j]
             /\ UNCHANGED <<phase, verifyVars, runVars>>]_vars

\* an instance was isolated by a name it does not declare
C18_Witness ==
    \E i \in Skippables :
        /\ nisolate > 0
        /\ ~(DOMAIN module[i].namespaces
                \subseteq module[i].stashable_names \cup module[i].poppable_names)

\* a forward call of mb is in progress
C19_Dispatching(mb) == status[mb] = "forward"

\* the stages of one micro-batch run one after the other: a call begins only
\* when every earlier stage has completed and saved, the call in progress is
\* the call of the current stage, and the tracker changes only in the first
\* or last step of that call
C19_StageOrder(mb) ==
    /\ BeginStep(mb) =>
          /\ Len(log[mb]) = stage[mb] - 1
          /\ call[mb].gen \in {"none", "Completed", "Returned"}
          /\ call[mb].stage < stage[mb]
    /\ C19_Dispatching(mb) =>
          /\ call[mb].stage = stage[mb]
          /\ Len(log[mb]) = stage[mb] - 1
    /\ stage'[mb] # stage[mb] =>
          /\ stage'[mb] = stage[mb] + 1
          /\ Len(log'[mb]) = stage[mb]
          /\ status'[mb] \in {"ready", "finished"}
          /\ call[mb].gen # "Yielded"
    /\ tracker'[mb] # tracker[mb] => BeginStep(mb) \/ FinishStep(mb)

\* C19: for each micro-batch the stages run strictly one after the other, and
\* a forward call that has begun always ends, by completing or by raising:
\* it is never left suspended on a yielded command.
C19_DispatchEnds ==
    /\ [][\A mb \in MicroBatches : C19_StageOrder(mb)]_vars
    /\ \A mb \in MicroBatches : C19_Dispatching(mb) ~> ~C19_Dispatching(mb)

\* both micro-batches went through the stash stage and the pop stage, each
\* call yielding a command and completing
C19_Witness ==
    \A mb \in MicroBatches :
        /\ status[mb] = "finished"
        /\ Len(log[mb]) = 3
        /\ call[mb].gen = "Completed"
        /\ call[mb].inj # <<>>

\* C20: when a completed computation left a declared stashable name unstashed
\* and a preloaded value unconsumed, forward raises the incomplete-stash error
\* alone, naming exactly the unstashed names: the leftover pops are not
\* reported.
C20_StashCheckFirst ==
    [][\A mb \in MicroBatches :
          (/\ FinishStep(mb)
           /\ C10_NotStashed(mb) # {}
           /\ C10_NotPopped(mb) # {})
             => /\ status'[mb] = "failed"
                /\ err'[mb].type = "IncompleteStash"
                /\ err'[mb].names = C10_NotStashed(mb)
                /\ call'[mb] = call[mb]]_vars

\* a stage declared with stash t and pop s returned without a command while
\* s was preloaded: the error names t and only t
C20_Witness ==
    /\ status["mb1"] = "failed"
    /\ err["mb1"] = Err("IncompleteStash", {"t"})
    /\ call["mb1"].trace = <<>>
    /\ DOMAIN call["mb1"].poppable_tensors = {"s"}

====
